---- MODULE Spec2Model ----
(***************************************************************************)
(* Model of FinalRAG: the answer orchestrator (rag_chain.py, RAGChain) and *)
(* the index engine (vectorstore.py, VectorStore).                          *)
(*                                                                         *)
(* Texts (questions, contexts, generated answers, exception messages) are  *)
(* sequences of string fragments; concatenation of texts is \o and the     *)
(* Python substring test `x in y` is Contains(y, x).                        *)
(***************************************************************************)
EXTENDS Integers, Sequences, FiniteSets, TLC

\* ------------------------------------------------------------------ bounds
MaxMemory == 2      \* max_memory ranges over 1..MaxMemory
MaxAppends == 3     \* turns appended between two clear_memory calls
MaxBatchLen == 2    \* questions in one batch_invoke call
MaxInput == 2       \* documents handed to one _create_vector_index call
MaxStored == 2      \* documents stored in, or on their way to, the vector index
MaxCalls == 2       \* _create_vector_index calls in flight at the same time
MaxBatchSize == 2   \* batch_size ranges over 1..MaxBatchSize
MaxConcurrent == 1  \* max_concurrent ranges over 1..MaxConcurrent
MaxSearches == 2    \* similarity_search calls in flight at the same time
MaxK == 2           \* k of a similarity_search call ranges over 1..MaxK
MaxContentLen == 2  \* characters of the page_content handed to the fingerprinter

\* ----------------------------------------------------------- text helpers
Contains(text, sub) ==
    \E i \in 0..(Len(text) - Len(sub)) : SubSeq(text, i + 1, i + Len(sub)) = sub

EndsWith(text, suffix) ==
    /\ Len(suffix) <= Len(text)
    /\ SubSeq(text, Len(text) - Len(suffix) + 1, Len(text)) = suffix

RECURSIVE Join(_, _)
Join(lines, sep) ==
    IF lines = <<>> THEN <<>>
    ELSE IF Len(lines) = 1 THEN lines[1]
    ELSE lines[1] \o sep \o Join(Tail(lines), sep)

LastN(s, n) == IF Len(s) <= n THEN s ELSE SubSeq(s, Len(s) - n + 1, Len(s))

\* ------------------------------------------------- collaborators' outputs
Questions == { <<"q1">>, <<"q2">> }
Contexts == { <<"ctx">> }
ToolSignal == <<"TOOL_USE", ":">>
GeneratedTexts ==
    { <<"ans">>,
      <<"TOOL_USE", " ans">>,
      <<"Summary:: ", "TOOL_USE", ":", " Need PubMed search">> }
\* the generation service answers with a message object or with a bare string
LLMResponses ==
    { [content |-> t] : t \in GeneratedTexts } \cup { [str |-> t] : t \in GeneratedTexts }
PubmedResults == { <<"pubmed results">> }
Exceptions == { <<"timeout">> }

QuestionLists ==
    UNION { [1..n -> Questions] : n \in 0..MaxBatchLen }

\* ------------------------------------------------------------------ state
VARIABLES
    memory,            \* RAGChain.memory: list of turns
    max_memory,        \* RAGChain.max_memory
    pc,                \* where the running invoke is suspended
    in_batch,          \* the running invoke was started by batch_invoke
    question,          \* invoke: question
    context,           \* invoke: context
    formatted_prompt,  \* invoke: formatted_prompt (the filled template slots)
    initial_answer,    \* invoke: initial_answer
    llm_prompts,       \* prompts handed to the generation service by this invoke
    tool_queries,      \* queries handed to the literature tool by this invoke
    questions,         \* batch_invoke: questions
    results,           \* batch_invoke: results
    batch_out,         \* history: how the last batch_invoke ended ("returned": with results)
    last,              \* history: summary of the last invoke call that ended
    appended           \* history: turns appended since creation / clear_memory

chain_vars ==
    << memory, max_memory, pc, in_batch, question, context, formatted_prompt,
       initial_answer, llm_prompts, tool_queries, questions, results,
       batch_out, last, appended >>

VARIABLES
    vector_index,          \* VectorStore.vector_index: None or a reference to a FAISS object
    faiss,                 \* the FAISS objects alive: reference -> docstore (list of documents)
    added_doc_hashes,      \* VectorStore.added_doc_hashes
    use_reranker,          \* VectorStore.use_reranker
    compression_retriever, \* VectorStore.compression_retriever: None or a retriever over a FAISS object
    batch_size,            \* VectorStore.batch_size
    semaphore,             \* free permits of VectorStore.semaphore
    disk,                  \* persist_directory: whether it exists and the index saved in it
    max_concurrent,        \* VectorStore.max_concurrent
    ready,                 \* the event loop's FIFO queue of batch tasks made by gather
    calls,                 \* the _create_vector_index calls waiting in gather
    searching,             \* the similarity_search calls suspended in their search
    done                   \* history: summary of the task that ran last

store_vars ==
    << vector_index, faiss, added_doc_hashes, use_reranker, compression_retriever,
       batch_size, semaphore, max_concurrent, disk, ready, calls, searching, done >>

vars == << chain_vars, store_vars >>

NoText == <<>>
NoPrompt == [template |-> "none", context |-> NoText, history |-> NoText,
             question |-> NoText, pubmed_results |-> NoText]
NoCall == [kind |-> "none", question |-> NoText, value |-> NoText,
           has_first |-> FALSE, first |-> NoText, llm_calls |-> 0,
           tool_queries |-> <<>>, tool |-> "none", tool_error |-> NoText,
           has_second |-> FALSE, second |-> NoText, appends |-> 0,
           memory_after |-> <<>>]
NoOutcome == "none"

\* ------------------------------------------------------- RAGChain helpers
Turn(q, a) == [question |-> q, answer |-> a]

\* variant: the slice misses the newest turn (memory[-max_memory:-1])
_format_history_stale(mem, maxm) ==
    IF mem = <<>> THEN <<"No previous conversation.">>
    ELSE LET shown == LastN(SubSeq(mem, 1, Len(mem) - 1), maxm)
             lines == [i \in 1..(2 * Len(shown)) |->
                          IF i % 2 = 1
                          THEN <<"Human: ">> \o shown[(i + 1) \div 2].question
                          ELSE <<"Assistant: ">> \o shown[i \div 2].answer]
         IN  Join(lines, <<"\n">>)

_format_history(mem, maxm) ==
    IF mem = <<>> THEN <<"No previous conversation.">>
    ELSE LET shown == LastN(mem, maxm)
             lines == [i \in 1..(2 * Len(shown)) |->
                          IF i % 2 = 1
                          THEN <<"Human: ">> \o shown[(i + 1) \div 2].question
                          ELSE <<"Assistant: ">> \o shown[i \div 2].answer]
         IN  Join(lines, <<"\n">>)

\* variant: pop() in place of pop(0), the newest turn is the one evicted
_add_to_memory_pop_newest(mem, maxm, q, a) ==
    LET grown == Append(mem, Turn(q, a))
    IN  IF Len(grown) > maxm THEN SubSeq(grown, 1, Len(grown) - 1) ELSE grown

_add_to_memory(mem, maxm, q, a) ==
    LET grown == Append(mem, Turn(q, a))
    IN  IF Len(grown) > maxm THEN Tail(grown) ELSE grown

ResponseText(response) ==
    IF "content" \in DOMAIN response THEN response.content ELSE response.str

\* variant: startswith in place of the substring test
HasToolSignal_prefix(text) ==
    /\ Len(text) >= Len(ToolSignal)
    /\ SubSeq(text, 1, Len(ToolSignal)) = ToolSignal

HasToolSignal(text) == Contains(text, ToolSignal)

\* variant: the tool is queried with a reformulated question
PubmedQuery_reformulated(q) == <<"PubMed: ">> \o q

PubmedQuery(q) == q

\* variant: the first-pass text is left out of the composed answer
FailureAnswer_without_original(e, initial) ==
    <<"An error occurred while trying to use the PubMed tool: ">> \o e

FailureAnswer(e, initial) ==
    <<"An error occurred while trying to use the PubMed tool: ">> \o e
        \o <<"\nOriginal attempt: ">> \o initial

FirstPrompt(ctx, mem, maxm, q) ==
    [template |-> "prompt", context |-> ctx, history |-> _format_history(mem, maxm),
     question |-> q, pubmed_results |-> NoText]

Reprompt(pubmed, ctx, mem, maxm, q) ==
    [template |-> "reprompt", context |-> ctx, history |-> _format_history(mem, maxm),
     question |-> q, pubmed_results |-> pubmed]

ChainInit ==
    /\ memory = <<>>
    /\ max_memory \in 1..MaxMemory
    /\ pc = "idle"
    /\ in_batch = FALSE
    /\ question = NoText
    /\ context = NoText
    /\ formatted_prompt = NoPrompt
    /\ initial_answer = NoText
    /\ llm_prompts = <<>>
    /\ tool_queries = <<>>
    /\ questions = <<>>
    /\ results = <<>>
    /\ batch_out = NoOutcome
    /\ last = NoCall
    /\ appended = <<>>

\* ------------------------------------------------------ RAGChain actions
\* the frame of a fresh invoke(q), suspended at the await of hybrid_retrieval
BeginInvoke(q) ==
    /\ pc' = "retrieving"
    /\ question' = q
    /\ context' = NoText
    /\ formatted_prompt' = NoPrompt
    /\ initial_answer' = NoText
    /\ llm_prompts' = <<>>
    /\ tool_queries' = <<>>

\* the frame of invoke is dropped
EndInvoke ==
    /\ pc' = "idle"
    /\ question' = NoText
    /\ context' = NoText
    /\ formatted_prompt' = NoPrompt
    /\ initial_answer' = NoText
    /\ llm_prompts' = <<>>
    /\ tool_queries' = <<>>

\* what is recorded of an invoke call when it ends: how it ended (kind, value),
\* the first-pass text if the first generation answered, the calls made to the
\* generation service and the literature tool, how the tool ended (tool,
\* tool_error), the second-call text if there is one, the number of turns the
\* call appended and the memory it left
Summary(kind, value, has_first, first, tool, tool_error, has_second, second, appends, mem) ==
    [kind |-> kind, question |-> question, value |-> value,
     has_first |-> has_first, first |-> first,
     llm_calls |-> Len(llm_prompts), tool_queries |-> tool_queries,
     tool |-> tool, tool_error |-> tool_error,
     has_second |-> has_second, second |-> second,
     appends |-> appends, memory_after |-> mem]

\* invoke, lines 137-140, and the continuation of the caller (batch_invoke
\* appends the result and starts the next question, lines 146-149)
Finish(answer, has_first, first, tool, tool_error, has_second, second) ==
    /\ memory' = _add_to_memory(memory, max_memory, question, answer)
    /\ appended' = Append(appended, Turn(question, answer))
    /\ last' = Summary("returned", answer, has_first, first, tool, tool_error,
                       has_second, second, 1, memory')
    /\ IF in_batch
       THEN /\ results' = Append(results, answer)
            /\ IF Len(results') < Len(questions)
               THEN /\ BeginInvoke(questions[Len(results') + 1])
                    /\ UNCHANGED << in_batch, questions, batch_out >>
               ELSE /\ EndInvoke
                    /\ in_batch' = FALSE
                    /\ batch_out' = "returned"
                    /\ UNCHANGED questions
       ELSE /\ EndInvoke
            /\ UNCHANGED << in_batch, questions, results, batch_out >>
    /\ UNCHANGED max_memory

\* an exception leaves invoke (and batch_invoke, which has no handler)
Raise(e, has_first, first) ==
    /\ last' = Summary("raised", e, has_first, first, "none", NoText, FALSE, NoText,
                       0, memory)
    /\ EndInvoke
    /\ in_batch' = FALSE
    /\ batch_out' = IF in_batch THEN "raised" ELSE batch_out
    /\ results' = <<>>
    /\ UNCHANGED << memory, max_memory, appended, questions >>

Invoke(q) ==
    /\ pc = "idle"
    /\ Len(appended) < MaxAppends
    /\ BeginInvoke(q)
    /\ in_batch' = FALSE
    /\ questions' = <<>>
    /\ results' = <<>>
    /\ batch_out' = NoOutcome
    /\ UNCHANGED << memory, max_memory, last, appended >>
    /\ UNCHANGED store_vars

BatchInvoke(qs) ==
    /\ pc = "idle"
    /\ qs # <<>>
    /\ Len(appended) + Len(qs) <= MaxAppends
    /\ BeginInvoke(qs[1])
    /\ in_batch' = TRUE
    /\ questions' = qs
    /\ results' = <<>>
    /\ batch_out' = NoOutcome
    /\ UNCHANGED << memory, max_memory, last, appended >>
    /\ UNCHANGED store_vars

BatchInvokeEmpty ==
    /\ pc = "idle"
    /\ questions' = <<>>
    /\ results' = <<>>
    /\ batch_out' = "returned"
    /\ UNCHANGED << memory, max_memory, pc, in_batch, question, context,
                    formatted_prompt, initial_answer, llm_prompts, tool_queries,
                    last, appended >>
    /\ UNCHANGED store_vars

\* lines 80-90: the retriever answers, the prompt is formatted and handed to
\* the generation service
RetrieverReturns(ctx) ==
    /\ pc = "retrieving"
    /\ context' = ctx
    /\ formatted_prompt' = FirstPrompt(ctx, memory, max_memory, question)
    /\ llm_prompts' = Append(llm_prompts, formatted_prompt')
    /\ pc' = "generating"
    /\ UNCHANGED << memory, max_memory, in_batch, question, initial_answer,
                    tool_queries, questions, results, batch_out, last, appended >>
    /\ UNCHANGED store_vars

RetrieverRaises(e) ==
    /\ pc = "retrieving"
    /\ Raise(e, FALSE, NoText)
    /\ UNCHANGED store_vars

\* lines 90-98, marker present: the literature tool is called
FirstGenerationToolUse(response) ==
    /\ pc = "generating"
    /\ HasToolSignal(ResponseText(response))
    /\ initial_answer' = ResponseText(response)
    /\ tool_queries' = Append(tool_queries, PubmedQuery(question))
    /\ pc' = "searching"
    /\ UNCHANGED << memory, max_memory, in_batch, question, context,
                    formatted_prompt, llm_prompts, questions, results,
                    batch_out, last, appended >>
    /\ UNCHANGED store_vars

\* lines 90-94 and 134-140, marker absent
FirstGenerationDirect(response) ==
    /\ pc = "generating"
    /\ ~HasToolSignal(ResponseText(response))
    /\ Finish(ResponseText(response), TRUE, ResponseText(response), "none",
              NoText, FALSE, NoText)
    /\ UNCHANGED store_vars

FirstGenerationRaises(e) ==
    /\ pc = "generating"
    /\ Raise(e, FALSE, NoText)
    /\ UNCHANGED store_vars

\* lines 98-128: the tool answers, the second prompt is formatted and handed
\* to the generation service
ToolReturns(pubmed_results) ==
    /\ pc = "searching"
    /\ formatted_prompt' = Reprompt(pubmed_results, context, memory, max_memory, question)
    /\ llm_prompts' = Append(llm_prompts, formatted_prompt')
    /\ pc' = "regenerating"
    /\ UNCHANGED << memory, max_memory, in_batch, question, context,
                    initial_answer, tool_queries, questions, results,
                    batch_out, last, appended >>
    /\ UNCHANGED store_vars

\* lines 131-140
ToolRaises(e) ==
    /\ pc = "searching"
    /\ Finish(FailureAnswer(e, initial_answer), TRUE, initial_answer, "raised",
              e, FALSE, NoText)
    /\ UNCHANGED store_vars

\* lines 128-129 and 137-140
SecondGenerationReturns(response) ==
    /\ pc = "regenerating"
    /\ Finish(ResponseText(response), TRUE, initial_answer, "ok",
              NoText, TRUE, ResponseText(response))
    /\ UNCHANGED store_vars

\* the second generation raises inside the try block: lines 131-140
SecondGenerationRaises(e) ==
    /\ pc = "regenerating"
    /\ Finish(FailureAnswer(e, initial_answer), TRUE, initial_answer, "ok",
              NoText, FALSE, NoText)
    /\ UNCHANGED store_vars

clear_memory ==
    /\ pc = "idle"
    /\ memory' = <<>>
    /\ appended' = <<>>
    /\ questions' = <<>>
    /\ results' = <<>>
    /\ batch_out' = NoOutcome
    /\ UNCHANGED << max_memory, pc, in_batch, question, context, formatted_prompt,
                    initial_answer, llm_prompts, tool_queries, last >>
    /\ UNCHANGED store_vars

ChainNext ==
    \/ \E q \in Questions : Invoke(q)
    \/ \E qs \in QuestionLists : BatchInvoke(qs)
    \/ BatchInvokeEmpty
    \/ \E ctx \in Contexts : RetrieverReturns(ctx)
    \/ \E e \in Exceptions : RetrieverRaises(e)
    \/ \E r \in LLMResponses : FirstGenerationToolUse(r)
    \/ \E r \in LLMResponses : FirstGenerationDirect(r)
    \/ \E e \in Exceptions : FirstGenerationRaises(e)
    \/ \E p \in PubmedResults : ToolReturns(p)
    \/ \E e \in Exceptions : ToolRaises(e)
    \/ \E r \in LLMResponses : SecondGenerationReturns(r)
    \/ \E e \in Exceptions : SecondGenerationRaises(e)
    \/ clear_memory


\* ------------------------------------------------- properties of RAGChain
MarkerText == <<"TOOL_USE", ":">>
ErrorIndicator == <<"An error occurred while trying to use the PubMed tool: ">>
Ended == last.kind # "none"
StoredTurn == last.memory_after[Len(last.memory_after)]

\* C2 - Fallback decision: the literature tool is called by an invoke if and
\* only if its first-pass text contains "TOOL_USE:"; when the marker is absent
\* the call returns exactly the first-pass text, with one call to the
\* generation service and none to the tool.
C2_FallbackDecision ==
    /\ pc \in {"retrieving", "generating"} => tool_queries = <<>>
    /\ pc \in {"searching", "regenerating"} =>
          /\ Contains(initial_answer, MarkerText)
          /\ Len(tool_queries) = 1
    /\ Ended =>
          /\ (last.tool_queries # <<>>) <=>
                 (last.has_first /\ Contains(last.first, MarkerText))
          /\ (last.has_first /\ ~Contains(last.first, MarkerText)) =>
                 /\ last.kind = "returned"
                 /\ last.value = last.first
                 /\ last.llm_calls = 1
                 /\ last.tool_queries = <<>>

\* C2 witness: an invoke whose first-pass text holds "TOOL_USE" without the
\* colon has returned, and one whose text holds the marker has called the tool
C2_Witness ==
    /\ last.kind = "returned"
    /\ last.first = <<"TOOL_USE", " ans">>
    /\ last.value = last.first
    /\ pc = "searching"
    /\ Len(tool_queries) = 1

\* C3 - Fallback success path: marker in the first-pass text and the tool
\* succeeded: the tool was called once with the original question, the
\* generation service was called twice, and the second-call text is what
\* invoke returns and what the memory entry of the question stores.
C3_FallbackSuccess ==
    (Ended /\ last.has_first /\ Contains(last.first, MarkerText) /\ last.tool = "ok") =>
        /\ last.tool_queries = << last.question >>
        /\ last.llm_calls = 2
        /\ last.kind = "returned"
        /\ last.has_second =>
              /\ last.value = last.second
              /\ StoredTurn = [question |-> last.question, answer |-> last.second]
              /\ last.second # last.first => StoredTurn.answer # last.first

C3_Witness ==
    /\ last.kind = "returned"
    /\ last.tool = "ok"
    /\ last.has_second
    /\ last.second = <<"ans">>
    /\ Contains(last.first, MarkerText)
    /\ memory # <<>>
    /\ memory[Len(memory)] = [question |-> last.question, answer |-> <<"ans">>]

\* C4 - No error escapes invoke: whichever collaborator fails, invoke returns
\* an answer and never ends by raising.
C4_NoErrorEscapes == last.kind # "raised"

\* C5 - Fallback failure degradation: marker in the first-pass text and the
\* tool raised: invoke returns a non-empty answer that states the failure,
\* includes the exception text and ends with the first-pass text, and that
\* answer is the one appended to memory.
C5_FallbackFailure ==
    (Ended /\ last.has_first /\ Contains(last.first, MarkerText) /\ last.tool = "raised") =>
        /\ last.kind = "returned"
        /\ last.value # <<>>
        /\ Contains(last.value, ErrorIndicator)
        /\ Contains(last.value, last.tool_error)
        /\ EndsWith(last.value, last.first)
        /\ last.appends = 1
        /\ StoredTurn = [question |-> last.question, answer |-> last.value]

C5_Witness ==
    /\ last.kind = "returned"
    /\ last.tool = "raised"
    /\ last.tool_error = <<"timeout">>
    /\ Contains(last.first, MarkerText)
    /\ memory # <<>>
    /\ EndsWith(memory[Len(memory)].answer, last.first)

\* C6 - Memory update: every invoke call appends exactly one turn, the
\* question with the answer the call returns.
C6_MemoryUpdatedByEveryCall ==
    Ended =>
        /\ last.appends = 1
        /\ last.kind = "returned"
        /\ StoredTurn = [question |-> last.question, answer |-> last.value]

\* C7 - Bounded FIFO memory: after n appends since creation or the last
\* clear_memory the memory is the last min(n, max_memory) appended turns in
\* their order; its length never exceeds max_memory.
C7_BoundedFifo ==
    LET n == Len(appended)
        kept == IF n < max_memory THEN n ELSE max_memory
    IN  /\ Len(memory) = kept
        /\ Len(memory) <= max_memory
        /\ \A i \in 1..kept : memory[i] = appended[n - kept + i]

\* C7 witness: more turns were appended than the memory holds
C7_Witness ==
    /\ Len(appended) = max_memory + 1
    /\ Len(memory) = max_memory
    /\ memory[1] = appended[2]

\* C8 - Sequential batch ordering: batch_invoke works on question i only after
\* the memory updates of questions 1..i-1, in input order; the history in the
\* prompt of question i holds the previous question and its final answer, and
\* the results are the answers in input order.
BatchTurnsApplied ==
    /\ Len(results) <= Len(appended)
    /\ \A j \in 1..Len(results) :
          appended[Len(appended) - Len(results) + j] =
              [question |-> questions[j], answer |-> results[j]]

C8_SequentialBatch ==
    /\ in_batch =>
          /\ Len(results) < Len(questions)
          /\ question = questions[Len(results) + 1]
          /\ BatchTurnsApplied
    /\ (in_batch /\ pc # "retrieving" /\ Len(results) >= 1) =>
          LET i == Len(results)
          IN  /\ formatted_prompt.question = questions[i + 1]
              /\ Contains(formatted_prompt.history,
                          <<"Human: ">> \o questions[i] \o <<"\n">>
                              \o <<"Assistant: ">> \o results[i])
              /\ results[i] = last.value
    /\ batch_out = "returned" =>
          /\ Len(results) = Len(questions)
          /\ BatchTurnsApplied

\* C8 witness: the prompt of the second question of a batch has been composed
C8_Witness ==
    /\ in_batch
    /\ questions = << <<"q1">>, <<"q2">> >>
    /\ Len(results) = 1
    /\ pc = "generating"
    /\ formatted_prompt.question = <<"q2">>

\* ============================================================ VectorStore
None == 0
\* FAISS objects are referenced by vector_index, by the retriever and by the
\* searches in flight
FaissRefs == 1..(2 + MaxSearches)

\* page_content is a sequence of characters
Doc(content, meta) == [page_content |-> content, metadata |-> meta]
Documents ==
    { Doc(<<" ">>, "m1"), Doc(<<"a">>, "m1"), Doc(<<"b">>, "m1") }
DocumentLists == UNION { [1..n -> Documents] : n \in 0..MaxInput }

reranker_top_n == 4
base_k == 20          \* search_kwargs={"k": 20} of the retriever under the reranker
Ks == 1..MaxK
NoRetriever == [base |-> None, top_n |-> 0]
NoDisk == [exists |-> FALSE, docstore |-> <<>>]

Min(a, b) == IF a <= b THEN a ELSE b

\* str.strip() on a sequence of characters
RECURSIVE LStrip(_)
LStrip(content) ==
    IF content # <<>> /\ Head(content) = " " THEN LStrip(Tail(content)) ELSE content

RECURSIVE RStrip(_)
RStrip(content) ==
    IF content # <<>> /\ content[Len(content)] = " "
    THEN RStrip(SubSeq(content, 1, Len(content) - 1))
    ELSE content

Strip(content) == RStrip(LStrip(content))

\* hashlib.md5(...).hexdigest(): a non-empty digest, one per content
Md5(content) == <<"md5">> \o content

_get_document_hash(doc) ==
    IF doc.page_content # <<>> THEN Md5(doc.page_content) ELSE <<>>

\* variant: the loop stops after the first document of the batch
_update_doc_hashes_first_only(hashes, batch) ==
    hashes \cup { _get_document_hash(batch[i]) : i \in {1} \cap DOMAIN batch }

_update_doc_hashes(hashes, batch) ==
    hashes \cup { _get_document_hash(batch[i]) : i \in DOMAIN batch }

\* variant: the fingerprints of the loaded documents are not computed
_reconstruct_hashes_skipped(hashes, docstore) == hashes

_reconstruct_hashes(hashes, docstore) ==
    hashes \cup { _get_document_hash(docstore[i]) : i \in DOMAIN docstore }

_is_new_document(doc, hashes) ==
    LET doc_hash == _get_document_hash(doc)
    IN  doc_hash # <<>> /\ doc_hash \notin hashes

IsValidDoc(doc) == doc.page_content # <<>> /\ Strip(doc.page_content) # <<>>

_filter_valid_docs(documents) == SelectSeq(documents, IsValidDoc)

NewDocuments(valid_documents, hashes) ==
    LET IsNew(doc) == _is_new_document(doc, hashes)
    IN  SelectSeq(valid_documents, IsNew)

_create_batches(documents, size) ==
    [i \in 1..((Len(documents) + size - 1) \div size) |->
        SubSeq(documents, (i - 1) * size + 1, Min(i * size, Len(documents)))]

\* _setup_reranker: the flag and the retriever it leaves; ok says whether the
\* cross-encoder could be constructed
_setup_reranker(flag, index, retriever, ok) ==
    IF ~flag \/ index = None
    THEN [use_reranker |-> flag, compression_retriever |-> retriever]
    ELSE IF ok
         THEN [use_reranker |-> flag,
               compression_retriever |-> [base |-> index, top_n |-> reranker_top_n]]
         ELSE [use_reranker |-> FALSE, compression_retriever |-> retriever]

Take(s, n) == SubSeq(s, 1, Min(n, Len(s)))

Reverse(s) == [i \in 1..Len(s) |-> s[Len(s) + 1 - i]]

\* the order the vector index ranks its documents in for a query, and the order
\* the cross-encoder ranks the candidates in: fixed orders stand for the scores
SimilarityOrder(docstore) == Reverse(docstore)

RerankerOrder(candidates) == Reverse(candidates)

\* vector_index.asimilarity_search(query, k=k)
DirectTopK(docstore, k) == Take(SimilarityOrder(docstore), k)

\* compression_retriever.ainvoke(query): the base retriever's candidates, reranked
\* and cut to the compressor's top_n
RerankedTopN(docstore, top_n) ==
    Take(RerankerOrder(DirectTopK(docstore, base_k)), top_n)

\* a similarity_search call suspended in its search
Search(k, path, index) ==
    [k |-> k, path |-> path, index |-> index,
     after_delete |-> (done.op = "delete_index"), index_at_start |-> vector_index]

\* the docstore of the index the store points to
Docstore == IF vector_index = None THEN <<>> ELSE faiss[vector_index]

\* the FAISS objects the suspended searches hold
Held == { searching[i].index : i \in DOMAIN searching }

\* the FAISS objects still referenced once the store points to index and retriever
Referenced(heap, index, retriever) ==
    [r \in (DOMAIN heap) \cap ({index, retriever.base} \cup Held) |-> heap[r]]

FreeRef(retriever) ==
    CHOOSE r \in FaissRefs :
        /\ r \notin {retriever.base} \cup Held
        /\ \A q \in FaissRefs : q < r => q \in {retriever.base} \cup Held

\* a task of the event loop: _add_batch_and_persist(batch), made by the gather
\* of a _create_vector_index call; first marks the first task of that gather
BatchTask(call, batch, first) == [documents |-> batch, call |-> call, first |-> first]

RECURSIVE QueuedDocuments(_)
QueuedDocuments(queue) ==
    IF queue = <<>> THEN 0
    ELSE Len(Head(queue).documents) + QueuedDocuments(Tail(queue))

CallIds == 1..MaxCalls
NoDone ==
    [op |-> "none", batch |-> <<>>, write_ok |-> FALSE, saved |-> FALSE, ret |-> 0,
     docs_before |-> 0, disk_before |-> NoDisk,
     call_completed |-> FALSE, input |-> <<>>, fresh |-> FALSE, again |-> FALSE,
     all_ok |-> FALSE, all_saved |-> FALSE, docs_added |-> 0, hashes_added |-> 0,
     registered |-> {}, k |-> 0, path |-> "none", result |-> <<>>,
     after_delete |-> FALSE, index_at_start |-> None]

\* the state a constructed VectorStore is in when persist_directory is absent
StoreInit ==
    /\ vector_index = None
    /\ faiss = << >>
    /\ added_doc_hashes = {}
    /\ use_reranker \in BOOLEAN
    /\ compression_retriever = NoRetriever
    /\ batch_size \in 1..MaxBatchSize
    /\ max_concurrent \in 1..MaxConcurrent
    /\ semaphore = max_concurrent
    /\ disk = NoDisk
    /\ ready = <<>>
    /\ calls = << >>
    /\ searching = <<>>
    /\ done = NoDone

\* the state a VectorStore that is not in use is pinned to
StoreQuiet ==
    /\ vector_index = None
    /\ faiss = << >>
    /\ added_doc_hashes = {}
    /\ use_reranker = TRUE
    /\ compression_retriever = NoRetriever
    /\ batch_size = 1
    /\ max_concurrent = 1
    /\ semaphore = 1
    /\ disk = NoDisk
    /\ ready = <<>>
    /\ calls = << >>
    /\ searching = <<>>
    /\ done = NoDone

\* the state a RAGChain that is not in use is pinned to
ChainQuiet ==
    /\ memory = <<>>
    /\ max_memory = 1
    /\ pc = "idle"
    /\ in_batch = FALSE
    /\ question = NoText
    /\ context = NoText
    /\ formatted_prompt = NoPrompt
    /\ initial_answer = NoText
    /\ llm_prompts = <<>>
    /\ tool_queries = <<>>
    /\ questions = <<>>
    /\ results = <<>>
    /\ batch_out = NoOutcome
    /\ last = NoCall
    /\ appended = <<>>

\* ---------------------------------------------------- VectorStore actions
\* The store runs on one asyncio event loop.  _add_batch_and_persist has no
\* suspension point once the semaphore has a free permit, and delete_index
\* has none at all, so each runs as one step.  The tasks gather makes of the
\* batches of one call are queued next to each other: a caller runs before
\* the first or after the last of them, never in between.
AtBoundary == IF ready = <<>> THEN TRUE ELSE Head(ready).first

\* history: the call starts on an empty corpus, with no other call in flight
Fresh == vector_index = None /\ added_doc_hashes = {} /\ ready = <<>>

\* history: the call repeats, right after it, a call that started on an empty
\* corpus (or repeated such a call) and whose batches were all written
Again(documents) ==
    /\ ready = <<>>
    /\ done.call_completed
    /\ done.input = documents
    /\ done.fresh \/ done.again
    /\ done.all_ok

\* history: the input is remembered of the calls the history follows
Tracked(documents) == IF Fresh \/ Again(documents) THEN documents ELSE <<>>

\* _create_vector_index, lines 164-178: nothing to add, the call returns
CreateVectorIndexNothingNew(documents) ==
    /\ AtBoundary
    /\ LET valid_documents == _filter_valid_docs(documents)
           new_documents == NewDocuments(valid_documents, added_doc_hashes)
       IN  /\ documents = <<>> \/ valid_documents = <<>> \/ new_documents = <<>>
           /\ done' = [NoDone EXCEPT
                          !.op = "create_vector_index",
                          !.call_completed = TRUE,
                          !.input = Tracked(documents),
                          !.fresh = Fresh,
                          !.again = Again(documents),
                          !.all_ok = TRUE,
                          !.all_saved = TRUE]
    /\ UNCHANGED << vector_index, faiss, added_doc_hashes, use_reranker,
                    compression_retriever, batch_size, semaphore, max_concurrent, disk,
                    ready, calls, searching >>
    /\ UNCHANGED chain_vars

\* _create_vector_index, lines 164-181: the batches are handed to gather, which
\* makes one task of each, in order; the call waits for them
CreateVectorIndexGather(documents) ==
    /\ AtBoundary
    /\ Cardinality(DOMAIN calls) < MaxCalls
    /\ LET valid_documents == _filter_valid_docs(documents)
           new_documents == NewDocuments(valid_documents, added_doc_hashes)
           batches == _create_batches(new_documents, batch_size)
           id == CHOOSE c \in CallIds : c \notin DOMAIN calls
       IN  /\ new_documents # <<>>
           /\ Len(Docstore) + QueuedDocuments(ready) + Len(new_documents) <= MaxStored
           /\ calls' = [c \in (DOMAIN calls) \cup {id} |->
                          IF c = id
                          THEN [input |-> Tracked(documents), fresh |-> Fresh,
                                again |-> Again(documents),
                                pending |-> Len(batches), all_ok |-> TRUE,
                                all_saved |-> TRUE,
                                docs_added |-> 0, hashes_added |-> 0]
                          ELSE calls[c]]
           /\ ready' = ready \o [i \in 1..Len(batches) |-> BatchTask(id, batches[i], i = 1)]
           /\ done' = [NoDone EXCEPT !.op = "create_vector_index"]
    /\ UNCHANGED << vector_index, faiss, added_doc_hashes, use_reranker,
                    compression_retriever, batch_size, semaphore, max_concurrent,
                    disk, searching >>
    /\ UNCHANGED chain_vars

\* what the end of one batch task means to the call that gathers it
BatchEnds(task, write_ok, saved, ret) ==
    LET call == calls[task.call]
        all_ok == call.all_ok /\ write_ok
        all_saved == call.all_saved /\ saved
        docs_added == call.docs_added + (Len(faiss'[vector_index']) - Len(Docstore))
        hashes_added == call.hashes_added
                           + Cardinality(added_doc_hashes' \ added_doc_hashes)
    IN  /\ ready' = Tail(ready)
        /\ calls' = IF call.pending = 1
                    THEN [c \in (DOMAIN calls) \ {task.call} |-> calls[c]]
                    ELSE [calls EXCEPT ![task.call].pending = @ - 1,
                                       ![task.call].all_ok = all_ok,
                                       ![task.call].all_saved = all_saved,
                                       ![task.call].docs_added = docs_added,
                                       ![task.call].hashes_added = hashes_added]
        /\ done' = [NoDone EXCEPT
                       !.op = "add_batch", !.path = "returned",
                       !.batch = task.documents,
                       !.write_ok = write_ok, !.saved = saved, !.ret = ret,
                       !.docs_before = Len(Docstore),
                       !.disk_before = IF saved THEN NoDisk ELSE disk,
                       !.call_completed = (call.pending = 1),
                       !.input = call.input, !.fresh = call.fresh,
                       !.again = call.again, !.all_ok = all_ok,
                       !.all_saved = all_saved,
                       !.docs_added = docs_added, !.hashes_added = hashes_added]

\* FAISS.from_documents (a new object) or add_documents (the same object)
WriteBatch(batch) ==
    IF vector_index = None
    THEN LET ref == FreeRef(compression_retriever)
         IN  /\ vector_index' = ref
             /\ faiss' = [r \in ((DOMAIN faiss) \cap ({compression_retriever.base} \cup Held))
                                    \cup {ref} |->
                             IF r = ref THEN batch ELSE faiss[r]]
    ELSE /\ vector_index' = vector_index
         /\ faiss' = [faiss EXCEPT ![vector_index] = @ \o batch]

\* variant: the permit is released on the success path only; a batch whose
\* write raises keeps it
AddBatchWriteFails_keeps_permit ==
    /\ ready # <<>>
    /\ Head(ready).documents # <<>>
    /\ semaphore > 0
    /\ semaphore' = semaphore - 1
    /\ UNCHANGED << vector_index, faiss, added_doc_hashes, use_reranker,
                    compression_retriever, batch_size, max_concurrent, disk,
                    searching >>
    /\ LET call == calls[Head(ready).call]
       IN  /\ ready' = Tail(ready)
           /\ calls' = IF call.pending = 1
                       THEN [c \in (DOMAIN calls) \ {Head(ready).call} |-> calls[c]]
                       ELSE [calls EXCEPT ![Head(ready).call].pending = @ - 1,
                                          ![Head(ready).call].all_ok = FALSE,
                                          ![Head(ready).call].all_saved = FALSE]
           /\ done' = [NoDone EXCEPT
                          !.op = "add_batch", !.path = "returned",
                          !.batch = Head(ready).documents,
                          !.docs_before = Len(Docstore),
                          !.disk_before = disk,
                          !.call_completed = (call.pending = 1),
                          !.input = call.input, !.fresh = call.fresh,
                          !.again = call.again,
                          !.docs_added = call.docs_added,
                          !.hashes_added = call.hashes_added]
    /\ UNCHANGED chain_vars

\* variant: the exception of the write leaves _add_batch_and_persist, gather
\* hands it to _create_vector_index, which ends with it; the siblings are dropped
AddBatchWriteFails_raises ==
    /\ ready # <<>>
    /\ Head(ready).documents # <<>>
    /\ semaphore > 0
    /\ semaphore' = (semaphore - 1) + 1
    /\ UNCHANGED << vector_index, faiss, added_doc_hashes, use_reranker,
                    compression_retriever, batch_size, max_concurrent, disk,
                    searching >>
    /\ LET call == calls[Head(ready).call]
           Sibling(task) == task.call = Head(ready).call
           Other(task) == ~Sibling(task)
           others == SelectSeq(Tail(ready), Other)
       IN  /\ ready' = [i \in DOMAIN others |->
                          [others[i] EXCEPT !.first = (i = 1 \/ others[i].first)]]
           /\ calls' = [c \in (DOMAIN calls) \ {Head(ready).call} |-> calls[c]]
           /\ done' = [NoDone EXCEPT
                          !.op = "add_batch", !.path = "raised",
                          !.batch = Head(ready).documents,
                          !.docs_before = Len(Docstore),
                          !.disk_before = disk,
                          !.call_completed = TRUE,
                          !.input = call.input, !.fresh = call.fresh,
                          !.again = call.again,
                          !.docs_added = call.docs_added,
                          !.hashes_added = call.hashes_added]
    /\ UNCHANGED chain_vars

\* _add_batch_and_persist, lines 148-161: the create-or-append step raises
AddBatchWriteFails ==
    /\ ready # <<>>
    /\ Head(ready).documents # <<>>
    /\ semaphore > 0
    /\ semaphore' = (semaphore - 1) + 1
    /\ UNCHANGED << vector_index, faiss, added_doc_hashes, use_reranker,
                    compression_retriever, batch_size, max_concurrent, disk,
                    searching >>
    /\ LET call == calls[Head(ready).call]
       IN  /\ ready' = Tail(ready)
           /\ calls' = IF call.pending = 1
                       THEN [c \in (DOMAIN calls) \ {Head(ready).call} |-> calls[c]]
                       ELSE [calls EXCEPT ![Head(ready).call].pending = @ - 1,
                                          ![Head(ready).call].all_ok = FALSE,
                                          ![Head(ready).call].all_saved = FALSE]
           /\ done' = [NoDone EXCEPT
                          !.op = "add_batch", !.path = "returned",
                          !.batch = Head(ready).documents,
                          !.docs_before = Len(Docstore),
                          !.disk_before = disk,
                          !.call_completed = (call.pending = 1),
                          !.input = call.input, !.fresh = call.fresh,
                          !.again = call.again,
                          !.docs_added = call.docs_added,
                          !.hashes_added = call.hashes_added]
    /\ UNCHANGED chain_vars

\* _add_batch_and_persist, lines 148-157, and _save_local_index: all steps succeed
AddBatchSaved ==
    /\ ready # <<>>
    /\ Head(ready).documents # <<>>
    /\ semaphore > 0
    /\ semaphore' = (semaphore - 1) + 1
    /\ WriteBatch(Head(ready).documents)
    /\ disk' = [exists |-> TRUE, docstore |-> faiss'[vector_index']]
    /\ added_doc_hashes' = _update_doc_hashes(added_doc_hashes, Head(ready).documents)
    /\ BatchEnds(Head(ready), TRUE, TRUE, Len(Head(ready).documents))
    /\ UNCHANGED << use_reranker, compression_retriever, batch_size, max_concurrent,
                    searching >>
    /\ UNCHANGED chain_vars

\* variant: the exception of save_local is not caught in _save_local_index; it
\* reaches the except branch of _add_batch_and_persist before the fingerprints
\* are registered, and the batch returns 0
AddBatchSaveFails_propagates ==
    /\ ready # <<>>
    /\ Head(ready).documents # <<>>
    /\ semaphore > 0
    /\ semaphore' = (semaphore - 1) + 1
    /\ WriteBatch(Head(ready).documents)
    /\ added_doc_hashes' = added_doc_hashes
    /\ BatchEnds(Head(ready), TRUE, FALSE, 0)
    /\ UNCHANGED << use_reranker, compression_retriever, batch_size, max_concurrent,
                    disk, searching >>
    /\ UNCHANGED chain_vars

\* _add_batch_and_persist, lines 148-157: save_local raises inside
\* _save_local_index, which logs it (lines 119-123)
AddBatchSaveFails ==
    /\ ready # <<>>
    /\ Head(ready).documents # <<>>
    /\ semaphore > 0
    /\ semaphore' = (semaphore - 1) + 1
    /\ WriteBatch(Head(ready).documents)
    /\ added_doc_hashes' = _update_doc_hashes(added_doc_hashes, Head(ready).documents)
    /\ BatchEnds(Head(ready), TRUE, FALSE, Len(Head(ready).documents))
    /\ UNCHANGED << use_reranker, compression_retriever, batch_size, max_concurrent,
                    disk, searching >>
    /\ UNCHANGED chain_vars

\* delete_index, lines 126-128
DeleteIndexNoDirectory ==
    /\ AtBoundary
    /\ ~disk.exists
    /\ done' = [NoDone EXCEPT !.op = "delete_index", !.path = "absent"]
    /\ UNCHANGED << vector_index, faiss, added_doc_hashes, use_reranker,
                    compression_retriever, batch_size, semaphore, max_concurrent, disk,
                    ready, calls, searching >>
    /\ UNCHANGED chain_vars

\* delete_index, lines 130-137; removed says whether rmtree succeeded
DeleteIndexDirectory(removed) ==
    /\ AtBoundary
    /\ disk.exists
    /\ disk' = IF removed THEN NoDisk ELSE disk
    /\ vector_index' = None
    /\ faiss' = Referenced(faiss, None, compression_retriever)
    /\ added_doc_hashes' = {}
    /\ done' = [NoDone EXCEPT !.op = "delete_index",
                              !.path = IF removed THEN "removed" ELSE "removal_failed"]
    /\ UNCHANGED << use_reranker, compression_retriever, batch_size, semaphore,
                    max_concurrent, ready, calls, searching >>
    /\ UNCHANGED chain_vars

DeleteIndexRemoved == DeleteIndexDirectory(TRUE)

DeleteIndexRemovalFails == DeleteIndexDirectory(FALSE)

\* history: the instance has just ingested one input into an empty corpus, every
\* batch written and every save done
RoundTrip ==
    /\ done.op \in {"add_batch", "create_vector_index"}
    /\ done.call_completed
    /\ done.fresh
    /\ done.all_ok
    /\ done.all_saved

\* a new VectorStore is constructed over the same persist_directory, with
\* use_reranker = flag (__post_init__, lines 42-45); the event loop of the old
\* one is gone.  Here the directory is absent: _load_local_index, lines 97-99
ConstructNoDirectory(flag) ==
    /\ ready = <<>>
    /\ ~disk.exists
    /\ vector_index' = None
    /\ faiss' = << >>
    /\ added_doc_hashes' = {}
    /\ use_reranker' = flag
    /\ compression_retriever' = NoRetriever
    /\ calls' = << >>
    /\ searching' = <<>>
    /\ done' = [NoDone EXCEPT !.op = "construct"]
    /\ UNCHANGED << batch_size, semaphore, max_concurrent, disk, ready >>
    /\ UNCHANGED chain_vars

\* __post_init__ when the index loads: _load_local_index, lines 101-106, with
\* its _setup_reranker, then _setup_reranker again (line 45)
ConstructLoaded(flag, reranker_ok1, reranker_ok2) ==
    /\ ready = <<>>
    /\ disk.exists
    /\ LET first == _setup_reranker(flag, 1, NoRetriever, reranker_ok1)
           second == _setup_reranker(first.use_reranker, 1,
                                     first.compression_retriever, reranker_ok2)
       IN  /\ vector_index' = 1
           /\ faiss' = [r \in {1} |-> disk.docstore]
           /\ added_doc_hashes' = _reconstruct_hashes({}, disk.docstore)
           /\ use_reranker' = second.use_reranker
           /\ compression_retriever' = second.compression_retriever
    /\ calls' = << >>
    /\ searching' = <<>>
    /\ done' = IF RoundTrip
               THEN [NoDone EXCEPT !.op = "construct", !.path = "loaded",
                                   !.call_completed = TRUE, !.input = done.input,
                                   !.fresh = TRUE, !.all_ok = TRUE, !.all_saved = TRUE,
                                   !.registered = added_doc_hashes]
               ELSE [NoDone EXCEPT !.op = "construct", !.path = "loaded"]
    /\ UNCHANGED << batch_size, semaphore, max_concurrent, disk, ready >>
    /\ UNCHANGED chain_vars

\* __post_init__ when FAISS.load_local raises: _load_local_index, lines 108-111
ConstructLoadFails(flag) ==
    /\ ready = <<>>
    /\ disk.exists
    /\ vector_index' = None
    /\ faiss' = << >>
    /\ added_doc_hashes' = {}
    /\ use_reranker' = flag
    /\ compression_retriever' = NoRetriever
    /\ calls' = << >>
    /\ searching' = <<>>
    /\ done' = [NoDone EXCEPT !.op = "construct"]
    /\ UNCHANGED << batch_size, semaphore, max_concurrent, disk, ready >>
    /\ UNCHANGED chain_vars

\* similarity_search, lines 185-187: no index, empty result
SimilaritySearchNoIndex(k) ==
    /\ AtBoundary
    /\ vector_index = None
    /\ done' = [NoDone EXCEPT !.op = "search", !.k = k, !.path = "no_index",
                              !.result = <<>>,
                              !.after_delete = (done.op = "delete_index")]
    /\ UNCHANGED << vector_index, faiss, added_doc_hashes, use_reranker,
                    compression_retriever, batch_size, semaphore, max_concurrent, disk,
                    ready, calls, searching >>
    /\ UNCHANGED chain_vars

\* similarity_search, line 190, with perform_reranked_search, lines 66 and 69:
\* use_reranker is set and there is no compression_retriever
SimilaritySearchNoRetriever(k) ==
    /\ AtBoundary
    /\ vector_index # None
    /\ use_reranker
    /\ compression_retriever = NoRetriever
    /\ done' = [NoDone EXCEPT !.op = "search", !.k = k, !.path = "no_retriever",
                              !.result = <<>>,
                              !.after_delete = (done.op = "delete_index"),
                              !.index_at_start = vector_index]
    /\ UNCHANGED << vector_index, faiss, added_doc_hashes, use_reranker,
                    compression_retriever, batch_size, semaphore, max_concurrent, disk,
                    ready, calls, searching >>
    /\ UNCHANGED chain_vars

\* similarity_search, line 190, with perform_reranked_search, lines 66-68:
\* top_n is set and the call waits for compression_retriever.ainvoke
SimilaritySearchReranked(k) ==
    /\ ready = <<>>
    /\ Len(searching) < MaxSearches
    /\ vector_index # None
    /\ use_reranker
    /\ compression_retriever # NoRetriever
    /\ compression_retriever' = [compression_retriever EXCEPT !.top_n = k]
    /\ searching' = Append(searching, Search(k, "rerank", compression_retriever.base))
    /\ done' = [NoDone EXCEPT !.op = "search_suspended"]
    /\ UNCHANGED << vector_index, faiss, added_doc_hashes, use_reranker,
                    batch_size, semaphore, max_concurrent, disk, ready, calls >>
    /\ UNCHANGED chain_vars

\* similarity_search, line 190: use_reranker is off, the call waits for
\* vector_index.asimilarity_search
SimilaritySearchDirect(k) ==
    /\ ready = <<>>
    /\ Len(searching) < MaxSearches
    /\ vector_index # None
    /\ ~use_reranker
    /\ searching' = Append(searching, Search(k, "direct", vector_index))
    /\ done' = [NoDone EXCEPT !.op = "search_suspended"]
    /\ UNCHANGED << vector_index, faiss, added_doc_hashes, use_reranker,
                    compression_retriever, batch_size, semaphore, max_concurrent, disk,
                    ready, calls >>
    /\ UNCHANGED chain_vars

\* the suspended search i ends with result on the given path; the FAISS object
\* it held is released
SearchEnds(i, path, result) ==
    /\ AtBoundary
    /\ i \in DOMAIN searching
    /\ searching' = SubSeq(searching, 1, i - 1) \o SubSeq(searching, i + 1, Len(searching))
    /\ faiss' = [r \in (DOMAIN faiss) \cap
                         ({vector_index, compression_retriever.base}
                             \cup { searching'[j].index : j \in DOMAIN searching' }) |->
                    faiss[r]]
    /\ done' = [NoDone EXCEPT !.op = "search", !.k = searching[i].k, !.path = path,
                              !.result = result,
                              !.after_delete = searching[i].after_delete,
                              !.index_at_start = searching[i].index_at_start]
    /\ UNCHANGED << vector_index, added_doc_hashes, use_reranker, compression_retriever,
                    batch_size, semaphore, max_concurrent, disk, ready, calls >>
    /\ UNCHANGED chain_vars

\* similarity_search, line 190: the awaited search returns (the reranker cuts
\* to the top_n its compressor holds when it runs)
SimilaritySearchReturns(i) ==
    /\ i \in DOMAIN searching
    /\ SearchEnds(i, searching[i].path,
                  IF searching[i].path = "rerank"
                  THEN RerankedTopN(faiss[searching[i].index], compression_retriever.top_n)
                  ELSE DirectTopK(faiss[searching[i].index], searching[i].k))

\* similarity_search, lines 192-194: the awaited search raises
SimilaritySearchRaises(i) ==
    /\ i \in DOMAIN searching
    /\ SearchEnds(i, "error", <<>>)

SearchNext ==
    \/ \E k \in Ks : SimilaritySearchNoIndex(k)
    \/ \E k \in Ks : SimilaritySearchNoRetriever(k)
    \/ \E k \in Ks : SimilaritySearchReranked(k)
    \/ \E k \in Ks : SimilaritySearchDirect(k)
    \/ \E i \in 1..MaxSearches : SimilaritySearchReturns(i)
    \/ \E i \in 1..MaxSearches : SimilaritySearchRaises(i)

StoreNext ==
    \/ \E documents \in DocumentLists : CreateVectorIndexNothingNew(documents)
    \/ \E documents \in DocumentLists : CreateVectorIndexGather(documents)
    \/ AddBatchWriteFails
    \/ AddBatchSaved
    \/ AddBatchSaveFails
    \/ DeleteIndexNoDirectory
    \/ DeleteIndexRemoved
    \/ DeleteIndexRemovalFails
    \/ \E flag \in BOOLEAN : ConstructNoDirectory(flag)
    \/ \E flag \in BOOLEAN, ok1 \in BOOLEAN, ok2 \in BOOLEAN : ConstructLoaded(flag, ok1, ok2)
    \/ \E flag \in BOOLEAN : ConstructLoadFails(flag)

\* ---------------------------------------------------------- specifications
Init == StoreInit /\ ChainQuiet

Next == StoreNext

\* the index engine
Spec == Init /\ [][Next]_vars

\* the index engine on its event loop, which runs every task that is ready
RunBatch == AddBatchWriteFails \/ AddBatchSaved \/ AddBatchSaveFails

FairSpec == Spec /\ WF_vars(RunBatch)

\* the index engine with its searches.  The documents come one per call, and
\* the caller keeps corpus changes and searches apart: a search starts when no
\* batch waits, a corpus change when no search is suspended
RetrievalInputs == { documents \in DocumentLists : Len(documents) = 1 }

NoSearch == searching = <<>>

RetrievalNext ==
    \/ \E documents \in RetrievalInputs :
          NoSearch /\ CreateVectorIndexNothingNew(documents)
    \/ \E documents \in RetrievalInputs :
          NoSearch /\ CreateVectorIndexGather(documents)
    \/ NoSearch /\ AddBatchWriteFails
    \/ NoSearch /\ AddBatchSaved
    \/ NoSearch /\ AddBatchSaveFails
    \/ NoSearch /\ DeleteIndexNoDirectory
    \/ NoSearch /\ DeleteIndexRemoved
    \/ NoSearch /\ DeleteIndexRemovalFails
    \/ \E flag \in BOOLEAN : NoSearch /\ ConstructNoDirectory(flag)
    \/ \E flag \in BOOLEAN, ok1 \in BOOLEAN, ok2 \in BOOLEAN :
          NoSearch /\ ConstructLoaded(flag, ok1, ok2)
    \/ \E flag \in BOOLEAN : NoSearch /\ ConstructLoadFails(flag)
    \/ SearchNext

RetrievalSpec == Init /\ [][RetrievalNext]_vars

\* the fingerprinter, applied to documents of any content and metadata; the
\* history keeps the last two documents and what was returned for them
Contents == UNION { [1..n -> {" ", "a"}] : n \in 0..MaxContentLen }

FingerprintDocuments == { Doc(content, meta) : content \in Contents, meta \in {"m1", "m2"} }

GetDocumentHash(doc) ==
    /\ done' = [NoDone EXCEPT
                   !.op = "get_document_hash",
                   !.batch = Take(<<doc>> \o done.batch, 2),
                   !.result = Take(<<_get_document_hash(doc)>> \o done.result, 2)]
    /\ UNCHANGED << vector_index, faiss, added_doc_hashes, use_reranker,
                    compression_retriever, batch_size, semaphore, max_concurrent, disk,
                    ready, calls, searching >>
    /\ UNCHANGED chain_vars

FingerprintStart == StoreInit /\ ChainQuiet

FingerprintNext == \E doc \in FingerprintDocuments : GetDocumentHash(doc)

FingerprintSpec == FingerprintStart /\ [][FingerprintNext]_vars

\* the answer orchestrator
ChainStart == ChainInit /\ StoreQuiet

ChainSpec == ChainStart /\ [][ChainNext]_vars

\* ---------------------------------------------- properties of VectorStore
\* the stored documents whose content is c
StoredWith(c) == { i \in DOMAIN Docstore : Docstore[i].page_content = c }

\* the contents that two documents of the input share
TwinContents(documents) ==
    { documents[i].page_content : i \in
        { k \in DOMAIN documents :
            /\ IsValidDoc(documents[k])
            /\ \E j \in DOMAIN documents :
                  j # k /\ documents[j].page_content = documents[k].page_content } }

\* C1 - Dedup idempotence: _create_vector_index on an empty corpus with an
\* input holding two documents of identical content leaves exactly one stored
\* document of that content and one fingerprint for it; the same call repeated
\* adds no document and no fingerprint.
C1_DedupIdempotence ==
    (done.call_completed /\ done.all_ok) =>
        /\ done.fresh =>
              \A c \in TwinContents(done.input) :
                  /\ Cardinality(StoredWith(c)) = 1
                  /\ Cardinality({ h \in added_doc_hashes : h = Md5(c) }) = 1
        /\ done.again =>
              /\ done.docs_added = 0
              /\ done.hashes_added = 0

\* C9 - Batch atomicity: a batch whose write fails leaves none of its
\* fingerprints in the fingerprint set and the document count as it was, and
\* returns 0; a batch that succeeds is in the index and in the fingerprint set
\* and returns its size.
C9_BatchAtomicity ==
    done.op = "add_batch" =>
        IF done.write_ok
        THEN /\ \A i \in DOMAIN done.batch :
                    _get_document_hash(done.batch[i]) \in added_doc_hashes
             /\ Len(Docstore) = done.docs_before + Len(done.batch)
             /\ SubSeq(Docstore, done.docs_before + 1, Len(Docstore)) = done.batch
             /\ done.ret = Len(done.batch)
        ELSE /\ \A i \in DOMAIN done.batch :
                    _get_document_hash(done.batch[i]) \notin added_doc_hashes
             /\ Len(Docstore) = done.docs_before
             /\ done.ret = 0

\* C10 - Corpus invariant: after every operation the fingerprints of the
\* documents stored in the in-memory vector index are exactly the fingerprint
\* set added_doc_hashes.
C10_CorpusInvariant ==
    { _get_document_hash(Docstore[i]) : i \in DOMAIN Docstore } = added_doc_hashes

\* C10 witnesses: two fingerprints registered by batches, one of them after a
\* save that failed; a corpus rebuilt by a load; a corpus torn down
C10_Witness ==
    /\ vector_index # None
    /\ Cardinality(added_doc_hashes) = 2
    /\ Len(Docstore) = 2
    /\ done.op = "add_batch"
    /\ done.write_ok
    /\ disk.exists
    /\ disk.docstore # Docstore

\* ------------------------------------------ properties of the retrieval side
\* C11 - Deletion reset: after delete_index returns, whatever its outcome (the
\* persisted directory was absent, was removed, or its removal failed), the
\* in-memory vector index is absent and the fingerprint set is empty, so the
\* search that follows returns an empty result; when the removal did not fail
\* the persisted directory no longer exists.
C11_DeletionReset ==
    /\ done.op = "delete_index" =>
          /\ vector_index = None
          /\ added_doc_hashes = {}
          /\ done.path # "removal_failed" => ~disk.exists
    /\ (done.op = "search" /\ done.after_delete) => done.result = <<>>

\* C12 - Search path selection: similarity_search(query, k) uses the reranker
\* only if use_reranker is set and a compression retriever was constructed;
\* otherwise, whenever a vector index exists (loaded at construction or created
\* later by ingestion), it returns the index's direct top k; with no index it
\* returns an empty list.  (A search whose collaborator raised is left aside.)
C12_SearchPathSelection ==
    (done.op = "search" /\ done.path # "error") =>
        LET reranking == use_reranker /\ compression_retriever # NoRetriever
        IN  /\ done.path = "rerank" => reranking
            /\ (~reranking /\ done.index_at_start # None) =>
                  /\ done.path = "direct"
                  /\ done.result = DirectTopK(Docstore, done.k)
            /\ done.index_at_start = None =>
                  /\ done.path = "no_index"
                  /\ done.result = <<>>

\* the contents of a list of documents are non-blank and pairwise distinct
DistinctNonBlank(documents) ==
    /\ \A i \in DOMAIN documents : IsValidDoc(documents[i])
    /\ \A i, j \in DOMAIN documents :
          i # j => documents[i].page_content # documents[j].page_content

\* C13 - Persistence round-trip: after N documents of pairwise distinct
\* non-blank content were ingested into an empty corpus and every save
\* succeeded, a new instance that loads the persisted directory reconstructs a
\* fingerprint set of size N, equal to the set the batches registered in the
\* first instance.  (N >= 1: with no document no batch runs and nothing is
\* saved, so there is nothing of that ingestion to load.)
C13_PersistenceRoundTrip ==
    (/\ done.op = "construct"
     /\ done.path = "loaded"
     /\ done.fresh /\ done.call_completed /\ done.all_ok /\ done.all_saved
     /\ done.input # <<>>
     /\ DistinctNonBlank(done.input)) =>
        /\ Cardinality(added_doc_hashes) = Len(done.input)
        /\ added_doc_hashes = done.registered

\* C13 witness: two documents, ingested in two batches, are loaded again
C13_Witness ==
    /\ done.op = "construct"
    /\ done.path = "loaded"
    /\ done.fresh /\ done.call_completed /\ done.all_ok /\ done.all_saved
    /\ DistinctNonBlank(done.input)
    /\ Len(done.input) = 2
    /\ batch_size = 1
    /\ Cardinality(added_doc_hashes) = 2

\* C14 - Fingerprint exclusivity under concurrency: when batches run
\* concurrently (the batches of one _create_vector_index call, or of two calls
\* in flight at the same time whose inputs share content), no two batches
\* register the same fingerprint: no content is added to the index by more
\* than one batch.  Stated of the batch that ran last: none of its documents
\* has the content of a document an earlier batch put in the index.
C14_FingerprintExclusivity ==
    (done.op = "add_batch" /\ done.write_ok) =>
        \A i \in DOMAIN done.batch :
            \A j \in 1..done.docs_before :
                Docstore[j].page_content # done.batch[i].page_content

\* the batch tasks of call c that wait in the queue
Waiting(c) == { i \in DOMAIN ready : ready[i].call = c }

\* C15 - Batch failure isolation: when a batch of a _create_vector_index call
\* fails, every sibling batch of the call is still attempted (none of the
\* call's tasks is dropped), the documents written before stay, each sibling
\* whose own write succeeds is fully ingested (documents in the index,
\* fingerprints registered), and neither the batch nor the call raises.
C15_BatchFailureIsolation ==
    /\ \A c \in DOMAIN calls : Cardinality(Waiting(c)) = calls[c].pending
    /\ \A i \in DOMAIN ready : ready[i].call \in DOMAIN calls
    /\ done.op = "add_batch" =>
          /\ done.path = "returned"
          /\ ~done.write_ok => Len(Docstore) = done.docs_before
          /\ (done.write_ok /\ ~done.all_ok) =>
                /\ Len(Docstore) = done.docs_before + Len(done.batch)
                /\ SubSeq(Docstore, done.docs_before + 1, Len(Docstore)) = done.batch
                /\ \A i \in DOMAIN done.batch :
                      _get_document_hash(done.batch[i]) \in added_doc_hashes
                /\ done.ret = Len(done.batch)

\* C15 witness: the first batch of a call failed, its sibling was written and
\* the call has ended
C15_Witness ==
    /\ done.op = "add_batch"
    /\ done.write_ok
    /\ ~done.all_ok
    /\ done.call_completed
    /\ done.docs_before = 0
    /\ Len(Docstore) = 1

\* C16 - Fingerprinter: _get_document_hash yields no valid fingerprint (the
\* empty value) for every document whose content is empty or whitespace-only;
\* for every other document it yields a fingerprint that depends on the content
\* alone (documents of identical content get the same fingerprint whatever
\* their metadata), and computing it changes no state.
C16_Fingerprinter ==
    done.op = "get_document_hash" =>
        /\ \A i \in DOMAIN done.batch :
              (Strip(done.batch[i].page_content) = <<>>) <=> (done.result[i] = <<>>)
        /\ \A i, j \in DOMAIN done.batch :
              done.batch[i].page_content = done.batch[j].page_content
                  => done.result[i] = done.result[j]
        /\ vector_index = None
        /\ added_doc_hashes = {}
        /\ disk = NoDisk

\* C17 - Save failure does not roll back: when the write of a batch succeeds
\* and the save that follows fails, nothing is raised, the documents of the
\* batch stay in the in-memory index, all its fingerprints are registered and
\* _add_batch_and_persist returns the batch size; the persisted directory keeps
\* what it held before.
C17_SaveFailureKeepsBatch ==
    (done.op = "add_batch" /\ done.write_ok /\ ~done.saved) =>
        /\ done.path = "returned"
        /\ Len(Docstore) = done.docs_before + Len(done.batch)
        /\ SubSeq(Docstore, done.docs_before + 1, Len(Docstore)) = done.batch
        /\ \A i \in DOMAIN done.batch :
              _get_document_hash(done.batch[i]) \in added_doc_hashes
        /\ done.ret = Len(done.batch)
        /\ disk = done.disk_before

\* C17 witness: a batch appended to a saved index, with the save failing: the
\* directory still holds the index as it was before the batch
C17_Witness ==
    /\ done.op = "add_batch"
    /\ done.write_ok
    /\ ~done.saved
    /\ done.docs_before = 1
    /\ Len(Docstore) = 2
    /\ disk.exists
    /\ Len(disk.docstore) = 1

\* the batches inside the permit-guarded section of _add_batch_and_persist
Inside == max_concurrent - semaphore

\* C18 - Permit discipline: with max_concurrent >= 1, at most max_concurrent
\* batches are inside the permit-guarded section at any moment; a batch
\* releases its permit whether its write succeeds or fails, so once no batch
\* is left the whole pool is free again; every batch that was launched runs
\* and every _create_vector_index call ends.
C18_PermitDiscipline ==
    /\ [](/\ max_concurrent >= 1
          /\ Inside \in 0..max_concurrent
          /\ ready = <<>> => semaphore = max_concurrent)
    /\ \A c \in CallIds : (c \in DOMAIN calls) ~> (c \notin DOMAIN calls)

\* C18 witness: a call with a failed batch has ended, no batch is left and
\* all permits are free
C18_Witness ==
    /\ done.op = "add_batch"
    /\ done.call_completed
    /\ ~done.all_ok
    /\ done.docs_added > 0
    /\ ready = <<>>
    /\ semaphore = max_concurrent

\* C19 - Concurrent searches do not interfere: when several similarity_search
\* calls with different k are in flight on a store whose reranker is active,
\* the result of each is the reranker's top k for its own k (at most k
\* documents), whatever the k of the other calls.
C19_ConcurrentSearches ==
    (done.op = "search" /\ done.path = "rerank") =>
        /\ done.result = RerankedTopN(faiss[compression_retriever.base], done.k)
        /\ Len(done.result) <= done.k

\* C20 - No stale retrieval after deletion: in a session where an index was
\* loaded and its reranker constructed, after delete_index and the ingestion of
\* new documents a search consults the index built last: every document a
\* search returns is a document of the index the store held when the search
\* started and still holds.
C20_NoStaleRetrieval ==
    (/\ done.op = "search"
     /\ compression_retriever # NoRetriever
     /\ vector_index # None
     /\ done.index_at_start = vector_index) =>
        \A i \in DOMAIN done.result :
            \E j \in DOMAIN Docstore : Docstore[j] = done.result[i]
====
